---- MODULE Spec2Model ----
(***************************************************************************)
(* State-machine model of the Data Cleaner notebook extension              *)
(* (src/dataclean/static/main.js): the toolbar button and its badge, the   *)
(* floating panel, the summary table built by html_table, the click        *)
(* handlers bound by code_exec_callback, and the kernel requests           *)
(* (object creation, introspection polls, widget loads) with their         *)
(* asynchronous replies.                                                   *)
(*                                                                         *)
(* The DOM is modelled by the classes and contents the code reads and      *)
(* writes: per row the class "hidden" of its detail cell, the arrow        *)
(* classes of its anchor, and the content of its widget placeholder.       *)
(* A row is <<d, 0>> for dataframe d (anchor .toggleDataframe, cell        *)
(* #d_row) or <<d, j>> with j >= 1 for column j of d (anchor               *)
(* .toggleColumn, cell #<colId>_row).                                      *)
(***************************************************************************)
EXTENDS Integers, Sequences, FiniteSets, TLC

\* ------------------------------------------------------------- bounds
MaxPolls == 2       \* introspection requests in flight (SpecLife)
MaxInit == 2        \* runs of datacleaner_init
MaxPollsTable == 1  \* introspection requests in flight (SpecTable)

\* The dataframes the kernel can report, and the descriptors it can send for
\* them: dataframe 1 with no column or with one column, dataframe 2 with none.
DfIds == {1, 2}
Descriptors ==
    {[dfId |-> 1, nCols |-> 0], [dfId |-> 1, nCols |-> 1], [dfId |-> 2, nCols |-> 0]}
Rows == {<<x.dfId, j>> : x \in Descriptors, j \in 0..1} \ {<<2, 1>>}
NoRow == <<0, 0>>

VARIABLES
    loaded,        \* load_jupyter_extension has run
    kernel,        \* Jupyter.notebook.kernel is an object (not null/undefined)
    nHandlers,     \* times varRefresh is bound to 'execute.CodeCell' / 'varRefresh'
    cfgPending,    \* callbacks registered on config.loaded that have not run yet
    md,            \* Jupyter.notebook.metadata.datacleaner: whether it is defined and
                   \* whether its window_display is true
    config_data,   \* config.data.datacleaner: the system-wide value of each key
    metadata,      \* Jupyter.notebook.metadata.datacleaner: the value of each key
    cfg,           \* the object cfg: the value of each key
    config_loaded, \* st.config_loaded
    badgePending,  \* require(iosbadge) callbacks of datacleaner_button not run yet
    badge,         \* the .iosb element of #datacleaner_button
    display,       \* #datacleaner-wrapper: "absent", or its css display
    anim,          \* the running toggle animation of #datacleaner-wrapper
    polls,         \* introspection requests whose output message is still to come
    n_dataframes,  \* the variable n_dataframes
    dfList,        \* displayed table: dataframe ids in display order
    nCols,         \* displayed table: number of column rows of each dataframe
    hidden,        \* class "hidden" on the cell #<id>_row of each row
    tableHidden,   \* class "hidden" on the cell #table_<dfId>
    arrow,         \* arrow classes on the row's anchor
    content,       \* what the cell #<id>_row holds
    req,           \* an unanswered widget request targets the wrapper in the cell
    stale,         \* an unanswered widget request targets a wrapper no longer in the document
    bound,         \* click handlers bound for the displayed table
    last,          \* the handler that ran last, when it is a trigger, a click, the
                   \* handler of a stream reply to a poll, of an error reply or of
                   \* a reply to a superseded widget request ("none" otherwise)
    pre,           \* what the redraw that ran last found displayed ("none": empty)
    issued,        \* kernel.execute calls made by the handler that ran last
    threw          \* the handler that ran last ended in an uncaught exception

cfgVars == <<config_data, metadata, cfg>>
lifeVars == <<loaded, kernel, nHandlers, cfgPending, md, config_loaded, badgePending, cfgVars>>
panelVars == <<display, anim>>
tableVars == <<n_dataframes, dfList, nCols, hidden, tableHidden, arrow, content, req, bound>>
histVars == <<last, pre, issued, threw>>
vars == <<lifeVars, badge, panelVars, polls, tableVars, stale, histVars>>

\* Jupyter.notebook.metadata.datacleaner === undefined
NoMetadata == [defined |-> FALSE, window_display |-> FALSE]
\* #datacleaner_button holds no .iosb element: the iosbadge plugin has not run
NoBadge == [exists |-> FALSE, hidden |-> TRUE, content |-> 0]

\* ------------------------------------------------------------ helpers
Range(s) == {s[i] : i \in 1..Len(s)}

\* Descriptor lists a poll reply can carry: distinct dataframe ids, each with
\* its number of columns (column ids are unique per dataframe and column).
\* The lists are taken in ascending order of the ids: html_table and the
\* handlers treat a row by its id alone, whatever its place in the table.
RECURSIVE ListsOfLen(_)
ListsOfLen(n) ==
    IF n = 0 THEN {<<>>}
    ELSE {Append(l, x) : l \in ListsOfLen(n - 1), x \in Descriptors}
Distinct(l) == \A i, j \in 1..Len(l) : i < j => l[i].dfId < l[j].dfId
Lists == UNION {{l \in ListsOfLen(n) : Distinct(l)} : n \in 0..Cardinality(DfIds)}
\* one list of each length, for the behaviour outside the table
FewLists == {l \in Lists : \A i \in 1..Len(l) : l[i].dfId = i /\ l[i].nCols = 0}

Present(r) == r[1] \in Range(dfList) /\ r[2] <= nCols[r[1]]
InList(L, r) == \E i \in 1..Len(L) : L[i].dfId = r[1] /\ r[2] <= L[i].nCols
IsDf(r) == r[2] = 0

\* message types an iopub output callback receives
MsgTypes == {"display_data", "error", "other"}

NoPre == [rows |-> {}, loaded |-> {}]
NoIssue == [create |-> 0, poll |-> 0, widget |-> <<>>]

Count(s, x) == Cardinality({i \in 1..Len(s) : s[i] = x})

\* a toggle that only ever adds the class
addClass(classes, c) == classes \cup {c}

\* jQuery's toggleClass on the class list of an element
toggleClass(classes, c) == IF c \in classes THEN classes \ {c} ELSE classes \cup {c}

\* $('#datacleaner-wrapper').is(':visible')
visible == display = "block"

\* ------------------------------------------------------ configuration
\* The keys read_config names.  A value is "undefined" or a value marked by
\* the place that defined it and by its truthiness in JavaScript.
Keys == {"window_display", "position", "kernels_config"}
SysValues == {"undefined", "sys_falsy", "sys_truthy"}
DocValues == {"undefined", "doc_falsy", "doc_truthy"}
Truthy(v) == v \in {"sys_truthy", "doc_truthy", "default_truthy"}

\* lines 14-26: window_display false, position {top: '50px'}, no kernels_config
DefaultCfg ==
    [k \in Keys |-> CASE k = "window_display" -> "default_falsy"
                      [] k = "position" -> "default_truthy"
                      [] OTHER -> "undefined"]
\* an object that is undefined or defines none of the keys
NoConfig == [k \in Keys |-> "undefined"]

\* $.extend(true, target, src): every value of src that is not undefined
\* replaces the target's
extend(target, src) == [k \in Keys |-> IF src[k] # "undefined" THEN src[k] ELSE target[k]]

\* The callback of read_config, lines 40-60, on the object c of cfg, the
\* system-wide values s and the document's values m; aliased: a former run
\* has made metadata.datacleaner the object cfg itself (line 52), so that
\* what line 40 writes into cfg is what lines 45-53 read from the metadata.
merge_config(c, s, m, aliased) ==
    LET c1 == extend(c, s)
        m1 == IF aliased THEN c1 ELSE m
        c2 == [k \in Keys |->
                 IF k \in {"window_display", "position"} /\ Truthy(m1[k])
                 THEN m1[k] ELSE c1[k]]
        c3 == extend(c2, m1)
    IN  IF Truthy(s["kernels_config"])
        THEN [c3 EXCEPT !["kernels_config"] = s["kernels_config"]]
        ELSE c3

\* the boolean the toggle stores in window_display
StoredFlag(b) == IF b THEN "doc_truthy" ELSE "doc_falsy"

\* ------------------------------------------------------ html_table
\* a renderer that forgets the classes of the table it replaces
ForgottenHidden(r) == TRUE

\* lines 129-133 and 173-177: the class of the old cell #<id>_row, or the
\* collapsed default when no element has that id
RememberedHidden(r) == IF Present(r) THEN hidden[r] ELSE TRUE

\* a renderer that forgets the class of the old column table
ForgottenTableHidden(d) == TRUE

\* lines 141-145: the class of the old cell #table_<dfId>
RememberedTableHidden(d) == IF d \in Range(dfList) THEN tableHidden[d] ELSE TRUE

\* a renderer that carries the old content of the placeholder over
KeptPlaceholder(r) == content[r]

\* lines 136 and 179: every placeholder is written as 'Loading widget...'
FreshPlaceholder(r) == "text"

\* The markup html_table builds from the descriptor list L, read against the
\* table still displayed; every anchor starts with arrow-right, every
\* placeholder with the text 'Loading widget...'.
html_table(L) ==
    [dfList |-> [i \in 1..Len(L) |-> L[i].dfId],
     nCols |-> [d \in DfIds |->
                  IF \E i \in 1..Len(L) : L[i].dfId = d
                  THEN (CHOOSE x \in Range(L) : x.dfId = d).nCols ELSE 0],
     hidden |-> [r \in Rows |-> IF InList(L, r) THEN RememberedHidden(r) ELSE TRUE],
     tableHidden |-> [d \in DfIds |->
                  IF InList(L, <<d, 0>>) THEN RememberedTableHidden(d) ELSE TRUE],
     arrow |-> [r \in Rows |-> {"arrow-right"}],
     content |-> [r \in Rows |-> FreshPlaceholder(r)]]

\* $('.toggleColumn') in document order, then $('.toggleDataframe')
RECURSIVE ColAnchors(_)
ColAnchors(L) ==
    IF L = <<>> THEN <<>>
    ELSE [j \in 1..Head(L).nCols |-> <<Head(L).dfId, j>>] \o ColAnchors(Tail(L))
DfAnchors(L) == [i \in 1..Len(L) |-> <<L[i].dfId, 0>>]

\* a redisplay loop that takes every row for open
AlwaysOpen(t, r) == TRUE

\* lines 286 and 294: the anchor's detail cell does not have class hidden
IsOpen(t, r) == ~t.hidden[r]

\* ------------------------------------------------------ widget loader
\* a column loader without the check of the panel's visibility
display_column_widget_unguarded(vis, c) == c # "output"

\* display_column_widget: whether it replaces the placeholder by a fresh
\* wrapper and calls kernel.execute (panel visible, no .output in the wrapper)
display_column_widget(vis, c) == vis /\ c # "output"

\* a pipeline loader without the check for a rendered .output
display_pipeline_widget_unchecked(vis, c) == vis

\* display_pipeline_widget: the same for the dataframe's pipeline widget
display_pipeline_widget(vis, c) == vis /\ c # "output"

display_widget(r, vis, c) ==
    IF IsDf(r) THEN display_pipeline_widget(vis, c) ELSE display_column_widget(vis, c)

\* a handler that renders a message of any type
display_widgets_any(t, c) == "output"

\* display_widgets: the placeholder's content after an output message of
\* type t reached the wrapper (an OutputArea adds a .output element to it)
display_widgets(t, c) == IF t = "display_data" THEN "output" ELSE c

\* a callback that looks the wrapper up by its id when the message arrives
wrapper_by_id(t, c) == display_widgets(t, c)

\* lines 222-226 and 240-245: the output callback holds the wrapper element
\* made for its own request.  Once .html() has replaced that element (a
\* redraw, or a later request for the row), display_widgets fills an element
\* outside the document: the cell now displayed for the row, holding c,
\* keeps what it holds.
captured_wrapper(t, c) == c

\* ------------------------------------------------------ panel
\* create_datacleaner_div, lines 464-499: the css display of the new wrapper
create_datacleaner_div ==
    IF md.defined
    THEN "none"    \* window_display !== undefined: css('display', 'none')
    ELSE "none"    \* .toggle() of the wrapper just appended, which is shown

\* a data_cleaner that builds a panel on every call
data_cleaner_recreate(d) == create_datacleaner_div

\* data_cleaner, lines 506-509: the css display of the panel, d before the
\* call; a panel is built only when the document holds none
data_cleaner(d) == IF d = "absent" THEN create_datacleaner_div ELSE d

\* datacleaner_button: the badge once the require callback has run
datacleaner_button_badge ==
    [exists |-> TRUE, hidden |-> TRUE, content |-> badge.content]

\* an initialisation that only polls
InitIssuesNoCreate == [create |-> 0, poll |-> 1, widget |-> <<>>]

\* lines 335-344: data_cleaner ends in varRefresh(), then the snippet that
\* creates _datacleaner is executed
InitIssues == [create |-> 1, poll |-> 1, widget |-> <<>>]

\* datacleaner_init, with p introspection requests unanswered when it runs:
\* read_config registers a callback, data_cleaner creates the panel when it
\* is absent and polls, the creation snippet is executed, varRefresh is
\* bound once more to the cell-execution and reload events.
datacleaner_init(p) ==
    /\ nHandlers < MaxInit
    /\ p + 1 <= MaxPolls
    /\ cfgPending' = cfgPending + 1
    /\ display' = data_cleaner(display)
    /\ polls' = p + 1
    /\ nHandlers' = nHandlers + 1
    /\ issued' = InitIssues
    /\ threw' = FALSE

\* ------------------------------------------------------ host events
\* a start-up that takes the kernel for attached
kernel_assumed == TRUE

\* line 539: Jupyter.notebook.kernel is neither undefined nor null
kernel_available == kernel

load_jupyter_extension ==
    /\ ~loaded
    /\ loaded' = TRUE
    /\ badgePending' = badgePending + 1
    /\ last' = "load"
    /\ pre' = NoPre
    /\ IF kernel_available
       THEN datacleaner_init(polls)
       ELSE /\ issued' = NoIssue
            /\ threw' = FALSE
            /\ UNCHANGED <<cfgPending, display, polls, nHandlers>>
    /\ UNCHANGED <<kernel, md, config_loaded, badge, anim, tableVars, stale, cfgVars>>

\* the handler of "kernel_ready.Kernel"
kernel_ready ==
    /\ loaded
    /\ kernel' = TRUE
    /\ datacleaner_init(polls)
    /\ last' = "kernel_ready"
    /\ pre' = NoPre
    /\ UNCHANGED <<loaded, md, config_loaded, badgePending, badge, anim, tableVars, stale,
                   cfgVars>>

\* the callback read_config registers on config.loaded
read_config ==
    /\ cfgPending > 0
    /\ cfgPending' = cfgPending - 1
    /\ cfg' = merge_config(cfg, config_data, metadata, config_loaded)
    /\ metadata' = cfg'
    /\ md' = [defined |-> TRUE, window_display |-> Truthy(cfg'["window_display"])]
    /\ badgePending' = IF kernel THEN badgePending + 1 ELSE badgePending
    /\ config_loaded' = TRUE
    /\ last' = "none"
    /\ pre' = NoPre
    /\ issued' = NoIssue
    /\ threw' = FALSE
    /\ UNCHANGED <<loaded, kernel, nHandlers, badge, panelVars, polls, tableVars, stale,
                   config_data>>

\* the require callback of datacleaner_button
datacleaner_button ==
    /\ badgePending > 0
    /\ badgePending' = badgePending - 1
    /\ badge' = datacleaner_button_badge
    /\ last' = "none"
    /\ pre' = NoPre
    /\ issued' = NoIssue
    /\ threw' = FALSE
    /\ UNCHANGED <<loaded, kernel, nHandlers, cfgPending, md, config_loaded,
                   panelVars, polls, tableVars, stale, cfgVars>>

\* varRefresh run once per binding by an 'execute.CodeCell' or 'varRefresh' event
CellExecuted(cap) ==
    /\ nHandlers > 0
    /\ polls + nHandlers <= cap
    /\ polls' = polls + nHandlers
    /\ last' = "cell"
    /\ pre' = NoPre
    /\ issued' = [NoIssue EXCEPT !.poll = nHandlers]
    /\ threw' = FALSE
    /\ UNCHANGED <<lifeVars, badge, panelVars, tableVars, stale>>

\* click on .reload-btn in the panel header: varRefresh()
Reload(cap) ==
    /\ visible
    /\ polls + 1 <= cap
    /\ polls' = polls + 1
    /\ last' = "reload"
    /\ pre' = NoPre
    /\ issued' = [NoIssue EXCEPT !.poll = 1]
    /\ threw' = FALSE
    /\ UNCHANGED <<lifeVars, badge, panelVars, tableVars, stale>>

\* toolbar button: toggle_datacleaner starts the animated .toggle()
ToggleClick ==
    /\ loaded
    /\ anim = "none"
    /\ display # "absent"
    /\ anim' = IF display = "none" THEN "show" ELSE "hide"
    /\ display' = "block"
    /\ last' = "none"
    /\ pre' = NoPre
    /\ issued' = NoIssue
    /\ threw' = FALSE
    /\ UNCHANGED <<lifeVars, badge, polls, tableVars, stale>>

\* the 'complete' callback of the toggle animation, lines 524-529
ToggleComplete(cap) ==
    /\ anim # "none"
    /\ anim' = "none"
    /\ display' = IF anim = "hide" THEN "none" ELSE "block"
    /\ last' = "toggle_complete"
    /\ pre' = NoPre
    /\ IF md.defined
       THEN /\ polls + 1 <= cap
            /\ md' = [md EXCEPT !.window_display = (display' = "block")]
            /\ metadata' = [metadata EXCEPT
                               !["window_display"] = StoredFlag(display' = "block")]
            /\ cfg' = IF config_loaded THEN metadata' ELSE cfg
            /\ polls' = polls + 1
            /\ issued' = [NoIssue EXCEPT !.poll = 1]
            /\ threw' = FALSE
       ELSE \* metadata.datacleaner is undefined: TypeError at line 525
            /\ issued' = NoIssue
            /\ threw' = TRUE
            /\ UNCHANGED <<md, metadata, cfg, polls>>
    /\ UNCHANGED <<loaded, kernel, nHandlers, cfgPending, config_loaded, badgePending,
                   badge, tableVars, stale, config_data>>

\* ------------------------------------------------------ code_exec_callback
\* a badge update that tests n >= 0
BadgeAfterOffByOne(n) ==
    IF n >= 0 THEN [exists |-> TRUE, hidden |-> FALSE, content |-> n]
    ELSE [badge EXCEPT !.hidden = TRUE]

\* lines 260-265: the badge after a redraw that stored n in n_dataframes
BadgeAfter(n) ==
    IF n > 0 THEN [exists |-> TRUE, hidden |-> FALSE, content |-> n]
    ELSE [badge EXCEPT !.hidden = TRUE]

\* The redraw of lines 257-299 for a stream message whose text parses to the
\* descriptor list L, n being what html_table stored in n_dataframes.
Redraw(L, n) ==
    LET t == html_table(L)
        \* line 261: .iosbadge is not a function until the plugin has loaded
        noPlugin == n > 0 /\ ~badge.exists
        open == IF noPlugin THEN <<>>
                ELSE SelectSeq(ColAnchors(L) \o DfAnchors(L), LAMBDA r : IsOpen(t, r))
        loads == SelectSeq(open, LAMBDA r : display_widget(r, visible, t.content[r]))
    IN  /\ pre' = [rows |-> {r \in Rows : Present(r)},
                    loaded |-> {r \in Rows : content[r] = "output"}]
        /\ n_dataframes' = n
        /\ dfList' = t.dfList
        /\ nCols' = t.nCols
        /\ hidden' = t.hidden
        /\ tableHidden' = t.tableHidden
        /\ arrow' = [r \in Rows |->
                       IF r \in Range(open)
                       THEN toggleClass(toggleClass(t.arrow[r], "arrow-right"), "arrow-down")
                       ELSE t.arrow[r]]
        /\ content' = [r \in Rows |-> IF r \in Range(loads) THEN "wrapper" ELSE t.content[r]]
        /\ req' = [r \in Rows |-> r \in Range(loads)]
        /\ stale' = (stale \/ \E r \in Rows : req[r])
        /\ badge' = IF noPlugin THEN badge ELSE BadgeAfter(n)
        /\ bound' = IF noPlugin THEN 0 ELSE 1
        /\ issued' = [NoIssue EXCEPT !.widget = loads]
        /\ threw' = noPlugin

\* stream message, text is a descriptor list
PollReplyList(L) ==
    /\ polls > 0
    /\ Redraw(L, Len(L))
    /\ last' = "poll_list"
    /\ polls' = polls - 1
    /\ UNCHANGED <<lifeVars, panelVars>>

\* stream message, text is JSON that is no array ({} or a number):
\* dfList.length is undefined (written -1), the loop body never runs
PollReplyNonArray ==
    /\ polls > 0
    /\ Redraw(<<>>, -1)
    /\ last' = "poll_nonarray"
    /\ polls' = polls - 1
    /\ UNCHANGED <<lifeVars, panelVars>>

\* stream message, text is not JSON (or is null): html_table throws at line
\* 107 (or 115) before anything is changed
PollReplyUnparseable ==
    /\ polls > 0
    /\ polls' = polls - 1
    /\ last' = "poll_unparseable"
    /\ pre' = NoPre
    /\ issued' = NoIssue
    /\ threw' = TRUE
    /\ UNCHANGED <<lifeVars, badge, panelVars, tableVars, stale>>

\* stream message, text === undefined: datacleaner_init()
PollReplyUndefined ==
    /\ polls > 0
    /\ datacleaner_init(polls - 1)
    /\ last' = "poll_undefined"
    /\ pre' = NoPre
    /\ UNCHANGED <<loaded, kernel, md, config_loaded, badgePending, badge, anim,
                   tableVars, stale, cfgVars>>

\* error message (logged, lines 309-312) or a message of another type
PollReplyOther(t) ==
    /\ polls > 0
    /\ t \in {"error", "other"}
    /\ polls' = polls - 1
    /\ last' = IF t = "error" THEN "error_reply" ELSE "none"
    /\ pre' = NoPre
    /\ issued' = NoIssue
    /\ threw' = FALSE
    /\ UNCHANGED <<lifeVars, badge, panelVars, tableVars, stale>>

\* ------------------------------------------------------ click handlers
\* what a click handler and the widget loader it calls do to row r
ClickRow(r) ==
    LET load == display_widget(r, visible, content[r])
    IN  /\ hidden' = [hidden EXCEPT ![r] = ~@]
        /\ arrow' = [arrow EXCEPT
                       ![r] = toggleClass(toggleClass(@, "arrow-right"), "arrow-down")]
        /\ content' = IF load THEN [content EXCEPT ![r] = "wrapper"] ELSE content
        /\ req' = IF load THEN [req EXCEPT ![r] = TRUE] ELSE req
        /\ stale' = (stale \/ (load /\ req[r]))
        /\ issued' = [NoIssue EXCEPT !.widget = IF load THEN <<r>> ELSE <<>>]
        /\ threw' = FALSE

\* click on a .toggleDataframe anchor, lines 276-282.  The handler runs once:
\* the anchor is inside the outer .tablesorter table alone.  Where line 261
\* threw before line 276 was reached no handler is bound, and the click only
\* follows the anchor's href="#".
ClickDataframe(d) ==
    /\ visible
    /\ d \in Range(dfList)
    /\ IF bound > 0
       THEN /\ ClickRow(<<d, 0>>)
            /\ tableHidden' = [tableHidden EXCEPT ![d] = ~@]
       ELSE /\ issued' = NoIssue
            /\ threw' = FALSE
            /\ UNCHANGED <<hidden, tableHidden, arrow, content, req, stale>>
    /\ last' = "click"
    /\ pre' = NoPre
    /\ UNCHANGED <<lifeVars, badge, panelVars, polls, n_dataframes, dfList, nCols, bound>>

\* click on a .toggleColumn anchor, lines 268-274; the anchor is inside the
\* cell #table_<dfId>.  The handler delegated to the inner .tablesorter table
\* runs and returns false, which stops the event before it reaches the
\* handler delegated to the outer table: it runs once.
ClickColumn(r) ==
    /\ bound > 0
    /\ visible
    /\ r \in Rows /\ Present(r) /\ ~IsDf(r) /\ ~tableHidden[r[1]]
    /\ ClickRow(r)
    /\ last' = "click"
    /\ pre' = NoPre
    /\ UNCHANGED <<lifeVars, badge, panelVars, polls, n_dataframes, dfList, nCols,
                   tableHidden, bound>>

\* ------------------------------------------------------ widget replies
\* an output message for the request whose wrapper is in the cell of row r
WidgetReply(r, t) ==
    /\ req[r]
    /\ req' = [req EXCEPT ![r] = FALSE]
    /\ content' = [content EXCEPT ![r] = display_widgets(t, @)]
    /\ last' = IF t = "error" THEN "error_reply" ELSE "none"
    /\ pre' = NoPre
    /\ issued' = NoIssue
    /\ threw' = FALSE
    /\ UNCHANGED <<lifeVars, badge, panelVars, polls, n_dataframes, dfList, nCols,
                   hidden, tableHidden, arrow, bound, stale>>

\* an output message for a request whose wrapper was replaced (by a redraw or
\* by a later request for the same row), r being the row it was made for
StaleWidgetReply(r, t) ==
    /\ stale
    /\ content' = [content EXCEPT ![r] = captured_wrapper(t, @)]
    /\ last' = "stale_reply"
    /\ pre' = NoPre
    /\ stale' \in BOOLEAN
    /\ issued' = NoIssue
    /\ threw' = FALSE
    /\ UNCHANGED <<lifeVars, badge, panelVars, polls, n_dataframes, dfList, nCols,
                   hidden, tableHidden, arrow, req, bound>>

Init ==
    /\ loaded = FALSE
    /\ kernel \in BOOLEAN
    /\ nHandlers = 0
    /\ cfgPending = 0
    /\ md \in {NoMetadata} \cup {[defined |-> TRUE, window_display |-> w] : w \in BOOLEAN}
    /\ config_data = NoConfig
    /\ metadata = IF md.defined
                  THEN [NoConfig EXCEPT !["window_display"] = StoredFlag(md.window_display)]
                  ELSE NoConfig
    /\ cfg = DefaultCfg
    /\ config_loaded = FALSE
    /\ badgePending = 0
    /\ badge = NoBadge
    /\ display = "absent"
    /\ anim = "none"
    /\ polls = 0
    /\ n_dataframes = 0
    /\ dfList = <<>>
    /\ nCols = [d \in DfIds |-> 0]
    /\ hidden = [r \in Rows |-> TRUE]
    /\ tableHidden = [d \in DfIds |-> TRUE]
    /\ arrow = [r \in Rows |-> {"arrow-right"}]
    /\ content = [r \in Rows |-> "text"]
    /\ req = [r \in Rows |-> FALSE]
    /\ stale = FALSE
    /\ bound = 0
    /\ last = "none"
    /\ pre = NoPre
    /\ issued = NoIssue
    /\ threw = FALSE

\* The state once start-up has settled in a notebook whose stored metadata
\* records the panel as hidden: load_jupyter_extension ran with a kernel, the
\* configuration callback and both badge callbacks ran, the first poll is in
\* flight.
InitTable ==
    /\ loaded = TRUE
    /\ kernel = TRUE
    /\ nHandlers = 1
    /\ cfgPending = 0
    /\ md = [defined |-> TRUE, window_display |-> FALSE]
    /\ config_data = NoConfig
    /\ metadata = [DefaultCfg EXCEPT !["window_display"] = StoredFlag(FALSE)]
    /\ cfg = metadata
    /\ config_loaded = TRUE
    /\ badgePending = 0
    /\ badge = [exists |-> TRUE, hidden |-> TRUE, content |-> 0]
    /\ display = "none"
    /\ anim = "none"
    /\ polls = 1
    /\ n_dataframes = 0
    /\ dfList = <<>>
    /\ nCols = [d \in DfIds |-> 0]
    /\ hidden = [r \in Rows |-> TRUE]
    /\ tableHidden = [d \in DfIds |-> TRUE]
    /\ arrow = [r \in Rows |-> {"arrow-right"}]
    /\ content = [r \in Rows |-> "text"]
    /\ req = [r \in Rows |-> FALSE]
    /\ stale = FALSE
    /\ bound = 0
    /\ last = "none"
    /\ pre = NoPre
    /\ issued = NoIssue
    /\ threw = FALSE

\* The table: polls with every descriptor list, toggles of the panel, the
\* clicks on rows and the widget replies, after a settled start-up.  A reply
\* to a superseded request is taken with the one type for which
\* display_widgets adds anything to its wrapper.
NextTable ==
    \/ CellExecuted(MaxPollsTable)
    \/ ToggleClick
    \/ ToggleComplete(MaxPollsTable)
    \/ \E L \in Lists : PollReplyList(L)
    \/ \E d \in DfIds : ClickDataframe(d)
    \/ \E r \in Rows : ClickColumn(r)
    \/ \E r \in Rows, t \in MsgTypes : WidgetReply(r, t)
    \/ \E r \in Rows : StaleWidgetReply(r, "display_data")
    \/ PollReplyOther("error")

SpecTable == InitTable /\ [][NextTable]_vars

\* The life cycle: repeated datacleaner_init (kernel-ready events and
\* replies without text), configuration and badge callbacks, toggles and
\* polls; no row is clicked, so no widget is requested.
NextLife ==
    \/ load_jupyter_extension
    \/ kernel_ready
    \/ read_config
    \/ datacleaner_button
    \/ CellExecuted(MaxPolls)
    \/ Reload(MaxPolls)
    \/ ToggleClick
    \/ ToggleComplete(MaxPolls)
    \/ \E L \in FewLists : PollReplyList(L)
    \/ PollReplyNonArray
    \/ PollReplyUnparseable
    \/ PollReplyUndefined
    \/ \E t \in {"error", "other"} : PollReplyOther(t)

SpecLife == Init /\ [][NextLife]_vars

\* The start-up with the user at the panel: the first poll replies race the
\* callbacks of the badge plugin and of the configuration, the panel is
\* toggled, dataframe names are clicked and widget requests are answered.
NextStart ==
    \/ load_jupyter_extension
    \/ read_config
    \/ datacleaner_button
    \/ ToggleClick
    \/ ToggleComplete(MaxPolls)
    \/ \E L \in FewLists : PollReplyList(L)
    \/ \E d \in DfIds : ClickDataframe(d)
    \/ \E r \in Rows : WidgetReply(r, "display_data")

SpecStart == Init /\ [][NextStart]_vars

\* The configuration: a notebook that is opened with any system-wide values
\* and any stored metadata (a stored entry has a window_display, which every
\* run of read_config and every toggle writes), the kernel attached.
InitConfig ==
    /\ loaded = FALSE
    /\ kernel = TRUE
    /\ nHandlers = 0
    /\ cfgPending = 0
    /\ config_data \in [Keys -> SysValues]
    /\ metadata \in {NoConfig} \cup
                     {m \in [Keys -> DocValues] : m["window_display"] # "undefined"}
    /\ md = IF metadata = NoConfig THEN NoMetadata
            ELSE [defined |-> TRUE, window_display |-> Truthy(metadata["window_display"])]
    /\ cfg = DefaultCfg
    /\ config_loaded = FALSE
    /\ badgePending = 0
    /\ badge = NoBadge
    /\ display = "absent"
    /\ anim = "none"
    /\ polls = 0
    /\ n_dataframes = 0
    /\ dfList = <<>>
    /\ nCols = [d \in DfIds |-> 0]
    /\ hidden = [r \in Rows |-> TRUE]
    /\ tableHidden = [d \in DfIds |-> TRUE]
    /\ arrow = [r \in Rows |-> {"arrow-right"}]
    /\ content = [r \in Rows |-> "text"]
    /\ req = [r \in Rows |-> FALSE]
    /\ stale = FALSE
    /\ bound = 0
    /\ last = "none"
    /\ pre = NoPre
    /\ issued = NoIssue
    /\ threw = FALSE

\* load, kernel-ready events and the configuration callbacks they register,
\* with the toggles that write window_display in between
NextConfig ==
    \/ load_jupyter_extension
    \/ kernel_ready
    \/ read_config
    \/ ToggleClick
    \/ ToggleComplete(MaxPolls)

SpecConfig == InitConfig /\ [][NextConfig]_vars

\* ==================================================================
\* Claims
\* ==================================================================

\* a row's detail is expanded: its cell does not have class hidden (for a
\* dataframe, neither the pipeline cell nor the cell of the column table)
Expanded(r) == ~hidden[r] /\ (IsDf(r) => ~tableHidden[r[1]])
Collapsed(r) == hidden[r] /\ (IsDf(r) => tableHidden[r[1]])

\* C1: when the descriptor list of a poll reply is rendered, every row of the
\* new table whose id was in the table displayed before keeps the
\* expanded/collapsed state it had just before the redraw, and every row
\* whose id was not in that table is rendered collapsed.
C1_ExpansionPreserved ==
    [][last' = "poll_list" =>
        \A r \in Rows : (Present(r))' =>
            IF Present(r)
            THEN /\ hidden'[r] = hidden[r]
                 /\ IsDf(r) => tableHidden'[r[1]] = tableHidden[r[1]]
            ELSE (Collapsed(r))']_vars

\* a redraw has kept one row expanded and rendered a row with a new id collapsed
C1_Witness ==
    /\ last = "poll_list"
    /\ \E r \in pre.rows : Present(r) /\ Expanded(r)
    /\ \E r \in Rows \ pre.rows : Present(r) /\ Collapsed(r)

\* the row a click handler has just toggled
Clicked(r) == last' = "click" /\ hidden'[r] # hidden[r]

\* C2: with the panel visible, expanding a collapsed row whose placeholder
\* still holds 'Loading widget...' issues exactly one widget request, and a
\* later click on that row (collapsing it, expanding it again) with no redraw
\* in between issues none, whether or not a reply to the first request has
\* arrived and whatever its type.
C2_OneRequestPerExpansion ==
    [][\A r \in Rows : Clicked(r) /\ visible =>
          /\ hidden[r] /\ content[r] = "text" => issued'.widget = <<r>>
          /\ content[r] # "text" => issued'.widget = <<>>]_vars

\* C3: a redraw leaves no row with loaded widget content, and expanding a row
\* that holds no loaded content, with the panel visible, issues a widget
\* request for it.
C3_RedrawUnloads ==
    [][/\ last' = "poll_list" => \A r \in Rows : content'[r] # "output"
       /\ \A r \in Rows : Clicked(r) /\ visible /\ hidden[r] /\ content[r] # "output"
              => issued'.widget = <<r>>]_vars

\* a redraw has just replaced a table in which a row it keeps was loaded
C3_Witness ==
    /\ last = "poll_list"
    /\ \E r \in pre.loaded : Present(r) /\ content[r] # "output"

\* C4: when a poll reply is rendered while the panel is visible, every row of
\* the new table that was expanded before the redraw is expanded after it and
\* exactly one widget request is issued for it in that redraw; no request is
\* issued for any other row.
C4_RedrawReloadsExpanded ==
    [][last' = "poll_list" /\ visible =>
        \A r \in Rows :
            IF (Present(r))' /\ Present(r) /\ ~hidden[r]
            THEN ~hidden'[r] /\ Count(issued'.widget, r) = 1
            ELSE Count(issued'.widget, r) = 0]_vars

\* a redraw in the visible panel has re-requested the widgets of an expanded
\* dataframe and of an expanded column, and none for a collapsed row
C4_Witness ==
    /\ last = "poll_list" /\ visible
    /\ \E r, q \in pre.rows :
          /\ IsDf(r) /\ ~IsDf(q)
          /\ Count(issued.widget, r) = 1 /\ Count(issued.widget, q) = 1
    /\ \E r \in pre.rows : Present(r) /\ hidden[r]

\* C5: a handler that runs while the panel is hidden issues no widget
\* request and puts no fresh wrapper into any placeholder.
C5_HiddenPanelLoadsNothing ==
    [][~visible =>
          /\ issued'.widget = <<>>
          /\ \A r \in Rows : /\ req'[r] => req[r]
                             /\ content'[r] = "wrapper" => content[r] = "wrapper"]_vars

\* a redraw in the hidden panel has kept a dataframe and a column expanded
\* and requested nothing
C5_Witness ==
    /\ last = "poll_list" /\ ~visible
    /\ \E r, q \in Rows : /\ IsDf(r) /\ ~IsDf(q)
                          /\ Present(r) /\ ~hidden[r] /\ content[r] = "text"
                          /\ Present(q) /\ ~hidden[q] /\ content[q] = "text"
    /\ issued.widget = <<>>

\* C6: rendering a poll reply with an empty descriptor list leaves a table
\* without rows and a hidden badge and issues no widget request, whatever
\* was displayed before.
C6_EmptyListClears ==
    [][last' = "poll_list" /\ n_dataframes' = 0 =>
          /\ dfList' = <<>>
          /\ \A r \in Rows : ~(Present(r))'
          /\ badge'.hidden
          /\ issued'.widget = <<>>]_vars

\* an empty list has replaced a table with expanded and loaded rows
C6_Witness ==
    /\ last = "poll_list" /\ n_dataframes = 0
    /\ dfList = <<>> /\ badge.exists /\ badge.hidden
    /\ pre.loaded # {}
    /\ Cardinality(pre.rows) >= 2

\* C7: in every reachable state the badge is hidden exactly when the
\* displayed table has no dataframe, and otherwise it is shown with the
\* number of dataframes of the table as its content.
C7_BadgeMatchesTable ==
    /\ badge.hidden <=> Len(dfList) = 0
    /\ Len(dfList) > 0 => badge.exists /\ badge.content = Len(dfList)

\* C8: the completion of a toggle that has made the panel visible issues
\* exactly one introspection poll.
C8_ShowPolls ==
    last = "toggle_complete" /\ visible => issued.poll = 1

\* C9: one cell execution, one reload request or one kernel-ready event
\* sends exactly one introspection command.
C9_OnePollPerTrigger ==
    last \in {"cell", "reload", "kernel_ready"} => issued.poll = 1

\* C10: a stream reply to a poll whose text is undefined executes the
\* creation snippet again, raises no exception and leaves the summary table
\* as it was.
C10_UndefinedTextReinitialises ==
    [][last' = "poll_undefined" =>
          /\ issued'.create = 1
          /\ ~threw'
          /\ UNCHANGED tableVars]_vars

\* a reply without text has re-initialised under a displayed table
C10_Witness ==
    /\ last = "poll_undefined"
    /\ issued.create = 1
    /\ Len(dfList) > 0
    /\ nHandlers = 2

\* C11: a stream reply to a poll whose text is no descriptor list (not JSON,
\* or JSON that is no array) is handled as the empty list: no exception, a
\* table without rows, a hidden badge, and the creation snippet executed
\* again.
C11_UnparseableAsEmpty ==
    last \in {"poll_unparseable", "poll_nonarray"} =>
        /\ ~threw
        /\ dfList = <<>>
        /\ badge.hidden
        /\ issued.create = 1

\* C12: once no poll is unanswered, the table and the badge show the list of
\* the reply rendered last: as many dataframe rows as that list has entries
\* and, when it has any, a visible badge with that number.
C12_LastReplyWins ==
    polls = 0 /\ n_dataframes >= 0 =>
        /\ Len(dfList) = n_dataframes
        /\ n_dataframes > 0 =>
              badge.exists /\ ~badge.hidden /\ badge.content = n_dataframes

\* C13: a reply to a widget request whose wrapper a redraw or a newer
\* request for the row has replaced changes no placeholder of the displayed
\* table, neither its content nor whether it counts as loaded, issues no
\* request and raises no exception.
C13_StaleReplyIgnored ==
    [][last' = "stale_reply" =>
          /\ content' = content
          /\ \A r \in Rows : (content'[r] = "output") <=> (content[r] = "output")
          /\ req' = req /\ hidden' = hidden /\ tableHidden' = tableHidden
          /\ issued' = NoIssue
          /\ ~threw']_vars

\* a superseded reply has arrived while the displayed table has an expanded
\* row whose own request is unanswered, and a loaded row beside it
C13_Witness ==
    /\ last = "stale_reply"
    /\ \E r \in Rows : Present(r) /\ ~hidden[r] /\ req[r] /\ content[r] = "wrapper"
    /\ \E r \in Rows : Present(r) /\ content[r] = "output"

\* C14: once the extension has initialised in a notebook whose metadata
\* records the panel's visibility, the panel is visible exactly when the
\* metadata says so.
C14_VisibilityRestored ==
    last = "load" /\ display # "absent" /\ md.defined =>
        (visible <=> md.window_display)

\* C15: when a toggle of the panel has completed, the visibility flag stored
\* in the metadata equals the panel's visibility.
C15_TogglePersisted ==
    last = "toggle_complete" => md.defined /\ (md.window_display <=> visible)

\* C16: while no kernel is attached, no handler has called kernel.execute:
\* nothing was issued by the handler that ran last, no poll and no widget
\* request is unanswered, and varRefresh is bound to no event.
C16_NoKernelNoExecute ==
    ~kernel =>
        /\ issued = NoIssue
        /\ polls = 0
        /\ \A r \in Rows : ~req[r]
        /\ nHandlers = 0

\* the extension was loaded without a kernel: the button and its badge exist,
\* no panel was created
C16_Witness ==
    /\ loaded /\ ~kernel
    /\ badge.exists /\ badgePending = 0
    /\ display = "absent"

\* C17: no handler ends in an uncaught exception.
C17_NoUncaughtException == ~threw

\* the value the stated precedence gives key k: the document's, else the
\* system-wide one, else the built-in default
Precedence(k, m, s) ==
    IF m[k] # "undefined" THEN m[k]
    ELSE IF s[k] # "undefined" THEN s[k]
    ELSE DefaultCfg[k]

\* C18: when the configuration callback has run, every key of cfg holds the
\* value the document's metadata defined for it, else the system-wide
\* value, else the built-in default.
C18_ConfigPrecedence ==
    [][cfgPending' < cfgPending =>
          \A k \in Keys : cfg'[k] = Precedence(k, metadata, config_data)]_vars

\* C19: a click on a row whose widget is loaded, collapsing it or expanding
\* it again, leaves the content of every placeholder as it is, the row's
\* included, and issues no kernel request.
C19_LoadedRowKept ==
    [][\A r \in Rows : Clicked(r) /\ content[r] = "output" =>
          /\ content' = content
          /\ req' = req
          /\ issued' = NoIssue]_vars

\* the only row of the table is loaded and a click has just expanded it
\* again: it was loaded while it was collapsed
C19_Witness ==
    /\ last = "click"
    /\ \E d \in DfIds :
          /\ dfList = <<d>> /\ nCols[d] = 0
          /\ ~hidden[<<d, 0>>] /\ content[<<d, 0>>] = "output"
    /\ issued = NoIssue

\* C20: an error reply, to a poll or to a widget request, issues no kernel
\* request and raises no exception, leaves the table, the expansion states
\* and the badge as they are, and leaves the placeholder of the row it
\* answers without loaded content.
C20_ErrorOnlyLogged ==
    [][last' = "error_reply" =>
          /\ issued' = NoIssue
          /\ ~threw'
          /\ UNCHANGED <<n_dataframes, dfList, nCols, hidden, tableHidden, arrow, badge,
                         bound>>
          /\ content' = content
          /\ \A r \in Rows : req[r] /\ ~req'[r] => content'[r] # "output"]_vars

\* an error reply has answered the request of an expanded row: its wrapper
\* is empty and no request for it is unanswered
C20_Witness ==
    /\ last = "error_reply"
    /\ \E r \in Rows : Present(r) /\ ~hidden[r] /\ ~req[r] /\ content[r] = "wrapper"

\* C21: a click on a dataframe name or a column name toggles the detail of
\* that row, and for a dataframe its column table with it, exactly once, and
\* changes the expansion state of no other row.
C21_ClickTogglesOnce ==
    [][last' = "click" =>
          \E r \in Rows :
              /\ Present(r)
              /\ hidden'[r] = ~hidden[r]
              /\ \A q \in Rows \ {r} : hidden'[q] = hidden[q]
              /\ \A d \in DfIds :
                    tableHidden'[d] = IF IsDf(r) /\ d = r[1] THEN ~tableHidden[d]
                                      ELSE tableHidden[d]]_vars

\* C22: after a poll reply was rendered or a click was handled, the anchor
\* of every displayed row has the class arrow-down alone exactly when the
\* row's detail is expanded and the class arrow-right alone exactly when it
\* is collapsed.
C22_ArrowMatchesExpansion ==
    last \in {"poll_list", "click"} =>
        \A r \in Rows : Present(r) =>
            /\ arrow[r] = {"arrow-down"} <=> Expanded(r)
            /\ arrow[r] = {"arrow-right"} <=> Collapsed(r)

\* a redraw has kept a dataframe and its column expanded and another
\* dataframe collapsed, each with its arrow
C22_Witness ==
    /\ last = "poll_list"
    /\ \E r, q, c \in pre.rows :
          /\ IsDf(r) /\ ~IsDf(q) /\ IsDf(c)
          /\ Present(r) /\ Expanded(r) /\ arrow[r] = {"arrow-down"}
          /\ Present(q) /\ Expanded(q) /\ arrow[q] = {"arrow-down"}
          /\ Present(c) /\ Collapsed(c) /\ arrow[c] = {"arrow-right"}

\* C23: for every dataframe of the displayed table the cell of the pipeline
\* widget and the cell of the column table are both hidden or both shown.
C23_PipelineAndColumnsTogether ==
    \A d \in Range(dfList) : hidden[<<d, 0>>] <=> tableHidden[d]

\* a redraw has kept a dataframe whose two cells were shown, after a click
\* on its column
C23_Witness ==
    /\ last = "poll_list"
    /\ \E d \in Range(dfList) :
          /\ <<d, 0>> \in pre.rows
          /\ ~hidden[<<d, 0>>] /\ ~tableHidden[d]
          /\ nCols[d] > 0 /\ ~hidden[<<d, 1>>]

\* C24: the handler of a reply to a poll issues no introspection poll.
C24_ReplyIssuesNoPoll ==
    last \in {"poll_list", "poll_nonarray", "poll_unparseable", "poll_undefined",
              "error_reply"} => issued.poll = 0

\* C25: a panel that exists stays: no handler removes it, and an
\* initialisation that finds it leaves it as it is, with its visibility, its
\* running animation, its table and the expansion states of the rows.
C25_PanelNeverReplaced ==
    [][display # "absent" =>
          /\ display' # "absent"
          /\ last' \in {"load", "kernel_ready", "poll_undefined"} =>
                /\ display' = display
                /\ anim' = anim
                /\ UNCHANGED tableVars]_vars

\* a second initialisation has run while the panel was shown with a table
C25_Witness ==
    /\ last \in {"kernel_ready", "poll_undefined"}
    /\ nHandlers = 2
    /\ display = "block" /\ anim = "none"
    /\ Len(dfList) > 0
====
